---- MODULE Spec2Model ----
(***************************************************************************)
(* The inter-thread message channel of src/thread/channel.c: a mutex and   *)
(* condition-variable protected queue of Variants with the counters sent   *)
(* and received, and the reference count the channel takes on itself       *)
(* while messages are queued.                                              *)
(* A second, independent part models the control points of the curve of    *)
(* src/math/curve.c, a flat vector of floats, three for each point.        *)
(***************************************************************************)
EXTENDS Integers, Sequences, FiniteSets, TLC

\* ---------------------------------------------------------------- bounds
\* Number of threads using the channel.
NumThreads == 3
\* The capacity ceiling of the queue (INT32_MAX in channel.c:38), scaled down.
INT32_MAX == 2
\* Largest finite timeout a caller passes, in clock ticks.
MaxTimeout == 1
\* Largest time one wait can take, in clock ticks (0: the clock did not tick).
MaxElapsed == 1
\* Largest number of external holders of the channel.
MaxExt == 1
\* Largest number of control points of the curve.
MaxPoints == 3
\* Largest coordinate of a control point (coordinates are 1..MaxCoord).
MaxCoord == 2
\* Cap on the number of pushes (the u64 counter sent is unbounded in practice).
MaxSent == INT32_MAX + 1

Threads == 1..NumThreads
NoThread == 0

VARIABLES
  messages,   \* channel->messages, in vec order (index 1 is data[0])
  sent,       \* channel->sent
  received,   \* channel->received
  ref,        \* channel->ref, the reference count
  lock,       \* owner of channel->lock, NoThread when free
  destroyed,  \* lovrChannelDestroy has run and the memory is freed
  ext,        \* number of references held by external holders
  pc,         \* position of each thread
  timeout,    \* the local f64 timeout of each thread's call
  id,         \* *id of a push, the id argument of hasRead, *variant of pop (0 between calls)
  ret,        \* what the step just taken returned to its caller (NoRet: no call returned)
  popped,     \* the values returned by successful pops, in order
  cleared,    \* the values lovrChannelClear destroyed (lines 130-132)
  points,     \* curve->points, the flat vector of floats (index 1 is data[0])
  before,     \* curve->points as it was before the last but one change
  call        \* the last call that changed the curve

curveVars == <<points, before, call>>

vars == <<messages, sent, received, ref, lock, destroyed, ext, pc, timeout, id, ret, popped, cleared,
          points, before, call>>

\* ------------------------------------------------------------- the f64 timeout
\* NaN, +infinity, or a number of ticks; every negative number (and -infinity)
\* takes the same branches, -1 stands for the ones a caller passes.
NaN == [k |-> "nan", v |-> 0]
Inf == [k |-> "inf", v |-> 0]
Num(n) == [k |-> "num", v |-> n]
Timeouts == {NaN, Inf} \cup {Num(n) : n \in -1..MaxTimeout}

isnan(x) == x.k = "nan"
isinf(x) == x.k = "inf"
\* x < 0. and x >= 0. on an f64: both false for NaN
LtZero(x) == x.k = "num" /\ x.v < 0
GeZero(x) == x.k = "inf" \/ (x.k = "num" /\ x.v >= 0)
\* the remaining timeout left as it was: every wait starts with the full time
Minus_rearm(x, e) == x
\* timeout -= elapsed (an infinite timeout never gets here)
Minus(x, e) == IF x.k = "num" THEN Num(x.v - e) ELSE x

\* --------------------------------------------------------------------- vec.h
\* a vec_insert that appends at the end instead of inserting at index 0
vec_insert_back(v, val) == v \o <<val>>
vec_insert(v, val) == <<val>> \o v
\* a vec_last that reads data[0], the newest message
vec_last_first(v) == v[1]
vec_last(v) == v[Len(v)]
\* a vec_pop that reads the last element and leaves it in place
vec_pop_keep(v) == v
vec_pop(v) == SubSeq(v, 1, Len(v) - 1)
vec_clear(v) == <<>>
Range(v) == {v[i] : i \in 1..Len(v)}

\* ------------------------------------------------------------------- returns
NoRet == [op |-> "none", ok |-> FALSE, val |-> 0, how |-> "none"]
Ret(op, ok, val, how) == [op |-> op, ok |-> ok, val |-> val, how |-> how]

\* a cnd_signal in place of the broadcast: only one suspended thread is woken
cnd_signal(p) ==
  IF \E u \in Threads : p[u] \in {"push_wait", "pop_wait"}
  THEN LET w == CHOOSE u \in Threads : p[u] \in {"push_wait", "pop_wait"}
       IN [p EXCEPT ![w] = IF p[w] = "push_wait" THEN "push_woken" ELSE "pop_woken"]
  ELSE p

\* no wake-up at all: the cnd_broadcast call left out
cnd_broadcast_lost(p) == p
\* cnd_broadcast: every thread suspended in cnd_wait / cnd_timedwait is woken
cnd_broadcast(p) ==
  [u \in Threads |-> IF p[u] = "push_wait" THEN "push_woken"
                     ELSE IF p[u] = "pop_wait" THEN "pop_woken"
                     ELSE p[u]]

\* struct Channel (lines 9-16) and the threads' positions
TypeOK ==
  /\ messages \in Seq(1..MaxSent)
  /\ sent \in 0..MaxSent
  /\ received \in 0..(MaxSent + 1)
  /\ ref \in 0..(MaxExt + 1 + MaxSent)
  /\ lock \in Threads \cup {NoThread}
  /\ destroyed \in BOOLEAN
  /\ ext \in 0..MaxExt
  /\ pc \in [Threads -> {"idle", "push_locked", "push_loop", "push_wait", "push_woken",
                          "pop_loop", "pop_taken", "pop_selflock", "pop_wait", "pop_woken",
                          "peek_locked", "clear_locked", "count_locked", "hasread_locked"}]
  /\ timeout \in [Threads -> {NaN, Inf} \cup {Num(n) : n \in (0 - MaxElapsed)..MaxTimeout}]
  /\ id \in [Threads -> 0..MaxSent]
  /\ popped \in Seq(1..MaxSent)
  /\ cleared \subseteq 1..MaxSent

\* no call has changed the curve yet
NoCall == [op |-> "none", index |-> 0]

Init ==
  /\ messages = <<>>
  /\ sent = 0
  /\ received = 0
  /\ ref = 1
  /\ lock = NoThread
  /\ destroyed = FALSE
  /\ ext = 1
  /\ pc = [t \in Threads |-> "idle"]
  /\ timeout = [t \in Threads |-> NaN]
  /\ id = [t \in Threads |-> 0]
  /\ ret = NoRet
  /\ popped = <<>>
  /\ cleared = {}
  /\ points = <<>>
  /\ before = <<>>
  /\ call = NoCall

\* mtx_lock at the start of a call: the call begins when the lock is taken
mtx_lock(t, to, arg, next) ==
  /\ pc[t] = "idle"
  /\ lock = NoThread
  /\ ~destroyed
  /\ lock' = t
  /\ pc' = [pc EXCEPT ![t] = next]
  /\ timeout' = [timeout EXCEPT ![t] = to]
  /\ id' = [id EXCEPT ![t] = arg]
  /\ ret' = NoRet
  /\ UNCHANGED <<messages, sent, received, ref, destroyed, ext, popped, cleared>>
  /\ UNCHANGED curveVars

\* ---------------------------------------------------------------------- push
PushLock(t, to) == sent < MaxSent /\ mtx_lock(t, to, 0, "push_locked")

\* a push that forgets lines 43-45
PushRetain_never(msgs, r) == r
\* lines 43-45: the self-reference taken when the queue is empty
PushRetain(msgs, r) == IF Len(msgs) = 0 THEN r + 1 ELSE r

\* line 38 with > for ==
PushFull_late(msgs) == Len(msgs) > INT32_MAX
\* line 38
PushFull(msgs) == Len(msgs) = INT32_MAX

\* line 51 with <= for <
NoWait_zero(x) == isnan(x) \/ (x.k = "num" /\ x.v <= 0)
\* line 51 without the isnan test
NoWait_negative(x) == LtZero(x)
\* line 51
NoWait(x) == isnan(x) \/ LtZero(x)

\* line 48 with sent++ for ++sent
PushId_post(s) == s
\* line 48: *id = ++channel->sent
PushId(s) == s + 1

\* lines 38-54: capacity check, retain, insert, id, broadcast, non-blocking return
PushInsert(t) ==
  /\ pc[t] = "push_locked"
  /\ IF PushFull(messages)
     THEN /\ lock' = NoThread
          /\ pc' = [pc EXCEPT ![t] = "idle"]
          /\ ret' = Ret("push", FALSE, 0, "throw")
          /\ timeout' = [timeout EXCEPT ![t] = NaN]
          /\ UNCHANGED <<messages, sent, received, ref, id>>
     ELSE /\ ref' = PushRetain(messages, ref)
          /\ messages' = vec_insert(messages, sent + 1)
          /\ sent' = sent + 1
          /\ UNCHANGED received
          /\ IF NoWait(timeout[t])
             THEN /\ lock' = NoThread
                  /\ id' = [id EXCEPT ![t] = 0]
                  /\ pc' = [cnd_broadcast(pc) EXCEPT ![t] = "idle"]
                  /\ ret' = Ret("push", FALSE, PushId(sent), "nowait")
                  /\ timeout' = [timeout EXCEPT ![t] = NaN]
             ELSE /\ pc' = [cnd_broadcast(pc) EXCEPT ![t] = "push_loop"]
                  /\ id' = [id EXCEPT ![t] = PushId(sent)]
                  /\ UNCHANGED <<lock, timeout>>
                  /\ ret' = NoRet
  /\ UNCHANGED <<destroyed, ext, popped, cleared>>
  /\ UNCHANGED curveVars

\* line 56: the condition of the wait loop
PushWaits(recv, myid, x) == recv < myid /\ GeZero(x)

\* line 74 taking the end of the loop for delivery
PushRead_always(recv, myid) == TRUE
\* line 74 with > for >=
PushRead_strict(recv, myid) == recv > myid
\* line 74
PushRead(recv, myid) == recv >= myid

\* lines 56-76: wait while the message is unread and time is left, else return
PushLoop(t) ==
  /\ pc[t] = "push_loop"
  /\ ~destroyed
  /\ IF PushWaits(received, id[t], timeout[t])
     THEN /\ pc' = [pc EXCEPT ![t] = "push_wait"]
          /\ lock' = NoThread
          /\ UNCHANGED <<timeout, id>>
          /\ ret' = NoRet
     ELSE /\ pc' = [pc EXCEPT ![t] = "idle"]
          /\ lock' = NoThread
          /\ ret' = Ret("push", PushRead(received, id[t]), id[t], "waited")
          /\ timeout' = [timeout EXCEPT ![t] = NaN]
          /\ id' = [id EXCEPT ![t] = 0]
  /\ UNCHANGED <<messages, sent, received, ref, destroyed, ext, popped, cleared>>
  /\ UNCHANGED curveVars

\* cnd_wait / cnd_timedwait end without a broadcast: a spurious wake, or the deadline
Wake(t) ==
  /\ pc[t] \in {"push_wait", "pop_wait"}
  /\ ~destroyed
  /\ pc' = [pc EXCEPT ![t] = IF pc[t] = "push_wait" THEN "push_woken" ELSE "pop_woken"]
  /\ UNCHANGED <<messages, sent, received, ref, lock, destroyed, ext, timeout, id, popped, cleared>>
  /\ ret' = NoRet
  /\ UNCHANGED curveVars

\* the wait returns with the lock held again; a finite timeout loses the time elapsed
WaitReturns(t, from, to) ==
  /\ pc[t] = from
  /\ lock = NoThread
  /\ ~destroyed
  /\ lock' = t
  /\ pc' = [pc EXCEPT ![t] = to]
  /\ IF isinf(timeout[t])
     THEN UNCHANGED timeout
     ELSE \E e \in 0..MaxElapsed : timeout' = [timeout EXCEPT ![t] = Minus(timeout[t], e)]
  /\ UNCHANGED <<messages, sent, received, ref, destroyed, ext, id, popped, cleared>>
  /\ ret' = NoRet
  /\ UNCHANGED curveVars

\* lines 57-71
PushWakeup(t) == WaitReturns(t, "push_woken", "push_loop")

\* ----------------------------------------------------------------------- pop
PopLock(t, to) == mtx_lock(t, to, 0, "pop_loop")

\* lovrRelease (the reference-counting framework): one reference less
lovrRelease(r) == r - 1

\* line 85: the self-reference is dropped when the pop emptied the queue
PopReleases(msgs) == Len(msgs) = 0

\* lines 83-95 and 97-108: take the oldest message and release, or return, or wait.
\* When the release drops the last reference, lovrChannelDestroy runs inside pop
\* with the lock held and lovrChannelClear locks it again: a plain mutex locked
\* twice by its owner is undefined, the thread either blocks for ever or the
\* lock call fails and Clear, the teardown and free() go on.
PopLoop(t) ==
  /\ pc[t] = "pop_loop"
  /\ ~destroyed
  /\ IF Len(messages) > 0
     THEN /\ id' = [id EXCEPT ![t] = vec_last(messages)]
          /\ messages' = vec_pop(messages)
          /\ UNCHANGED <<timeout, sent>>
          /\ ret' = NoRet
          /\ IF PopReleases(messages')
             THEN /\ ref' = lovrRelease(ref)
                  /\ IF ref' = 0
                     THEN \/ /\ pc' = [pc EXCEPT ![t] = "pop_selflock"]
                             /\ UNCHANGED <<lock, destroyed, received>>
                          \/ /\ received' = sent
                             /\ lock' = NoThread
                             /\ destroyed' = TRUE
                             /\ pc' = [cnd_broadcast(pc) EXCEPT ![t] = "pop_taken"]
                     ELSE /\ pc' = [pc EXCEPT ![t] = "pop_taken"]
                          /\ UNCHANGED <<lock, destroyed, received>>
             ELSE /\ pc' = [pc EXCEPT ![t] = "pop_taken"]
                  /\ UNCHANGED <<ref, lock, destroyed, received>>
     ELSE /\ UNCHANGED <<messages, sent, received, ref, destroyed, id>>
          /\ IF NoWait(timeout[t])
             THEN /\ lock' = NoThread
                  /\ pc' = [pc EXCEPT ![t] = "idle"]
                  /\ ret' = Ret("pop", FALSE, 0, "empty")
                  /\ timeout' = [timeout EXCEPT ![t] = NaN]
             ELSE /\ lock' = NoThread
                  /\ pc' = [pc EXCEPT ![t] = "pop_wait"]
                  /\ UNCHANGED <<timeout>>
                  /\ ret' = NoRet
  /\ UNCHANGED <<ext, popped, cleared>>
  /\ UNCHANGED curveVars

\* lines 88-91: count the message as received, wake the waiters, unlock, return
PopFinish(t) ==
  /\ pc[t] = "pop_taken"
  /\ received' = received + 1
  /\ lock' = NoThread
  /\ pc' = [cnd_broadcast(pc) EXCEPT ![t] = "idle"]
  /\ ret' = Ret("pop", TRUE, id[t], "took")
  /\ timeout' = [timeout EXCEPT ![t] = NaN]
  /\ popped' = Append(popped, id[t])
  /\ id' = [id EXCEPT ![t] = 0]
  /\ UNCHANGED <<messages, sent, ref, destroyed, ext, cleared>>
  /\ UNCHANGED curveVars

\* lines 97-111
PopWakeup(t) == WaitReturns(t, "pop_woken", "pop_loop")

\* ---------------------------------------------------------------------- peek
PeekLock(t) == mtx_lock(t, NaN, 0, "peek_locked")

\* lines 118-125
Peek(t) ==
  /\ pc[t] = "peek_locked"
  /\ lock' = NoThread
  /\ pc' = [pc EXCEPT ![t] = "idle"]
  /\ ret' = IF Len(messages) > 0
            THEN Ret("peek", TRUE, vec_last(messages), "took")
            ELSE Ret("peek", FALSE, 0, "empty")
  /\ UNCHANGED <<messages, sent, received, ref, destroyed, ext, timeout, id, popped, cleared>>
  /\ UNCHANGED curveVars

\* --------------------------------------------------------------------- clear
ClearLock(t) == mtx_lock(t, NaN, 0, "clear_locked")

\* a clear that forgets line 133
ClearReceived_kept(s, r) == r
\* line 133
ClearReceived(s, r) == s

\* lines 130-136: destroy the queued values, received = sent, empty, broadcast, unlock
Clear(t) ==
  /\ pc[t] = "clear_locked"
  /\ received' = ClearReceived(sent, received)
  /\ messages' = vec_clear(messages)
  /\ lock' = NoThread
  /\ pc' = [cnd_broadcast(pc) EXCEPT ![t] = "idle"]
  /\ ret' = Ret("clear", TRUE, 0, "none")
  /\ cleared' = cleared \cup Range(messages)
  /\ UNCHANGED <<sent, ref, destroyed, ext, timeout, id, popped>>
  /\ UNCHANGED curveVars

\* --------------------------------------------------------------------- count
CountLock(t) == mtx_lock(t, NaN, 0, "count_locked")

\* lines 141-143
GetCount(t) ==
  /\ pc[t] = "count_locked"
  /\ lock' = NoThread
  /\ pc' = [pc EXCEPT ![t] = "idle"]
  /\ ret' = Ret("count", TRUE, Len(messages), "none")
  /\ UNCHANGED <<messages, sent, received, ref, destroyed, ext, timeout, id, popped, cleared>>
  /\ UNCHANGED curveVars

\* ------------------------------------------------------------------- hasRead
HasReadLock(t, k) == mtx_lock(t, NaN, k, "hasread_locked")

\* line 148 with > for >=
HasReadValue_strict(recv, k) == recv > k
\* line 148
HasReadValue(recv, k) == recv >= k

\* lines 148-150
HasRead(t) ==
  /\ pc[t] = "hasread_locked"
  /\ lock' = NoThread
  /\ pc' = [pc EXCEPT ![t] = "idle"]
  /\ ret' = Ret("hasRead", HasReadValue(received, id[t]), id[t], "none")
  /\ id' = [id EXCEPT ![t] = 0]
  /\ UNCHANGED <<messages, sent, received, ref, destroyed, ext, timeout, popped, cleared>>
  /\ UNCHANGED curveVars

\* ------------------------------------------------------ the external holders
\* lovrRetain by a holder of the channel
ExtRetain ==
  /\ ~destroyed
  /\ ref > 0
  /\ ext < MaxExt
  /\ ref' = ref + 1
  /\ ext' = ext + 1
  /\ UNCHANGED <<messages, sent, received, lock, destroyed, pc, timeout, id, popped, cleared>>
  /\ ret' = NoRet
  /\ UNCHANGED curveVars

\* lovrRelease by a holder of the channel. The release that drops the last
\* reference runs lovrChannelDestroy (lines 27-33), whose lovrChannelClear takes
\* the lock; a thread inside a call relies on a holder, so the last holder lets
\* go only between calls.
ExtRelease ==
  /\ ~destroyed
  /\ ext >= 1
  /\ ref' = lovrRelease(ref)
  /\ ext' = ext - 1
  /\ IF ref' = 0
     THEN /\ lock = NoThread
          /\ \A t \in Threads : pc[t] = "idle"
          /\ destroyed' = TRUE
          /\ received' = ClearReceived(sent, received)
          /\ messages' = vec_clear(messages)
          /\ cleared' = cleared \cup Range(messages)
     ELSE UNCHANGED <<destroyed, received, messages, cleared>>
  /\ UNCHANGED <<sent, lock, pc, timeout, id, popped>>
  /\ ret' = NoRet
  /\ UNCHANGED curveVars

\* ====================================================================== claims
Blocked == {"push_wait", "push_woken", "pop_wait", "pop_woken"}

\* C1: on a live channel, whenever no thread holds the lock, received <= sent
\* and the queue length is sent - received; the same holds at the moment
\* lovrChannelGetCount reads the length, so count() returns sent - received.
CountInvariant ==
  (~destroyed /\ (lock = NoThread \/ \E t \in Threads : pc[t] = "count_locked"))
    => (received <= sent /\ Len(messages) = sent - received)

\* C1 witness: count() is reading a queue of one message after two were
\* removed, one of them by a clear.
CountWitness ==
  /\ \E t \in Threads : pc[t] = "count_locked"
  /\ Len(messages) = 1 /\ sent = 3 /\ received = 2
  /\ cleared # {}

\* C2: the values successive pops return have strictly increasing ids, every
\* queued value is younger than every popped one, and the queue holds its values
\* newest first, so that pops of v1..vn pushed in a row return them in order.
FifoOrder ==
  /\ \A i, j \in 1..Len(popped) : i < j => popped[i] < popped[j]
  /\ \A i \in 1..Len(popped), j \in 1..Len(messages) : popped[i] < messages[j]
  /\ \A i, j \in 1..Len(messages) : i < j => messages[i] > messages[j]

\* C2 witness: three values were queued and popped, in the order 1, 2, 3, and
\* two of them were in the queue together.
FifoWitness == popped = <<1, 2, 3>> /\ cleared = {} /\ ret = Ret("pop", TRUE, 3, "took")

\* the push of thread t returns in this step (not by the capacity error)
PushReturns(t) ==
  /\ pc[t] \in {"push_locked", "push_loop"}
  /\ pc'[t] = "idle"
  /\ ret'.op = "push"
  /\ ret'.how # "throw"

\* C3: a push that returns says delivered = true exactly when received has
\* reached its id, which is exactly when its message is no longer queued and no
\* pop is still between taking it and counting it; a push with an infinite
\* timeout never returns delivered = false.
DeliveredIffRead ==
  [][\A t \in Threads : PushReturns(t) =>
        /\ ret'.val = (IF pc[t] = "push_locked" THEN sent' ELSE id[t])
        /\ ret'.ok <=> (received' >= ret'.val)
        /\ ret'.ok <=> (ret'.val \notin Range(messages'))
        /\ ret'.ok => \A u \in Threads : ~(pc'[u] = "pop_taken" /\ id'[u] = ret'.val)
        /\ isinf(timeout[t]) => ret'.ok]_vars

\* C3 witness: a push that waited has returned delivered = true while a younger
\* message is still queued.
DeliveredWitness ==
  /\ ret = Ret("push", TRUE, 1, "waited")
  /\ messages = <<2>>
  /\ ~destroyed

\* C4: a thread blocked in push with an infinite timeout whose message a clear
\* destroyed eventually returns, with delivered = true, under fair scheduling.
ClearReleasesPushers ==
  \A t \in Threads : \A k \in 1..MaxSent :
    (pc[t] \in {"push_wait", "push_woken"} /\ isinf(timeout[t]) /\ id[t] = k /\ k \in cleared)
      ~> (ret = Ret("push", TRUE, k, "waited") /\ k \notin Range(popped))

\* C4 witness: one clear destroyed the messages of two blocked pushers; one of
\* them has returned delivered = true and the other is on its way out.
ClearWitness ==
  \E k \in cleared : \E u \in Threads :
    /\ ret = Ret("push", TRUE, k, "waited")
    /\ pc[u] \in {"push_woken", "push_loop"}
    /\ isinf(timeout[u])
    /\ id[u] \in cleared
    /\ popped = <<>>

\* C5: hasRead(k) of an assigned id k returns false while the k-th message is
\* queued and true once it is removed, and received never decreases, so a true
\* answer never reverts.
HasReadConsistent ==
  [][/\ \A t \in Threads : (pc[t] = "hasread_locked" /\ pc'[t] = "idle") =>
          /\ ret'.op = "hasRead" /\ ret'.val = id[t]
          /\ id[t] \in Range(messages) => ~ret'.ok
          /\ (id[t] <= sent /\ id[t] \notin Range(messages)) => ret'.ok
     /\ received' >= received]_vars

\* C5 witness: hasRead(2) has returned true while message 3 is still queued.
HasReadWitness == ret = Ret("hasRead", TRUE, 2, "none") /\ messages = <<3>>

\* C6: with the lock free, the reference count is the number of external
\* holders plus one exactly when the queue is non-empty.
SelfRetention ==
  (lock = NoThread /\ ~destroyed)
    => ref = ext + (IF Len(messages) > 0 THEN 1 ELSE 0)

\* C7: while messages are queued the reference count is positive and the
\* channel is not destroyed, and the step that destroys the channel discards no
\* queued message.
LifetimeGuarantee ==
  [][/\ Len(messages') > 0 => (ref' > 0 /\ ~destroyed')
     /\ (destroyed' /\ ~destroyed) => cleared' = cleared]_vars

\* C7 witness: no external holder is left and two messages are queued.
LifetimeWitness ==
  ext = 0 /\ ref = 1 /\ Len(messages) = 2 /\ lock = NoThread /\ ~destroyed

NaNOrNegative(x) == x.k = "nan" \/ (x.k = "num" /\ x.v < 0)

\* C8: a push with a NaN or negative timeout queues its value, takes the next
\* id, wakes every waiter and returns delivered = false at once; a pop with
\* such a timeout on an empty queue returns ok = false and changes nothing; no
\* thread is ever suspended with such a timeout.
NonBlockingCalls ==
  [][\A t \in Threads :
      /\ (pc[t] = "push_locked" /\ NaNOrNegative(timeout[t])
              /\ Len(messages) < INT32_MAX /\ pc'[t] # pc[t]) =>
           /\ pc'[t] = "idle" /\ lock' = NoThread
           /\ ret' = Ret("push", FALSE, sent + 1, "nowait")
           /\ sent' = sent + 1
           /\ Len(messages') = Len(messages) + 1 /\ sent' \in Range(messages')
           /\ \A u \in Threads : pc'[u] \notin {"push_wait", "pop_wait"}
      /\ (pc[t] = "pop_loop" /\ NaNOrNegative(timeout[t])
              /\ messages = <<>> /\ pc'[t] # pc[t]) =>
           /\ pc'[t] = "idle" /\ lock' = NoThread
           /\ ret' = Ret("pop", FALSE, 0, "empty")
           /\ UNCHANGED <<messages, sent, received, ref>>
      /\ pc'[t] \in Blocked => ~NaNOrNegative(timeout'[t])]_vars

\* C8 witness: a non-blocking push has returned and left a pusher and a popper
\* that were suspended woken.
NonBlockingWitness ==
  /\ ret.op = "push" /\ ret.how = "nowait" /\ ~ret.ok
  /\ \E u, v \in Threads : pc[u] = "pop_woken" /\ pc[v] = "push_woken"

\* C9: the queue never grows beyond the ceiling, and a push that finds it at the
\* ceiling fails, whatever its timeout: nothing changes, no id is assigned and
\* the lock is released.
CapacityError ==
  [][/\ Len(messages') <= INT32_MAX
     /\ \A t \in Threads :
          (pc[t] = "push_locked" /\ Len(messages) = INT32_MAX /\ pc'[t] # pc[t]) =>
             /\ ret' = Ret("push", FALSE, 0, "throw")
             /\ pc'[t] = "idle" /\ lock' = NoThread /\ id'[t] = 0
             /\ UNCHANGED <<messages, sent, received, ref>>]_vars

\* C9 witness: a push has failed on a full queue.
CapacityWitness == ret.how = "throw" /\ Len(messages) = INT32_MAX /\ lock = NoThread

\* C10: a push that leaves its wait loop before its message was removed had a
\* finite timeout that ran out, returns delivered = false and leaves the queue
\* as it is, its message at its place in the order; pop takes the oldest
\* message, received + 1, and has counted it when it returns.
TimedOutPushStays ==
  [][\A t \in Threads :
      /\ (pc[t] = "push_loop" /\ pc'[t] = "idle" /\ received < id[t]) =>
           /\ timeout[t].k = "num" /\ timeout[t].v < 0
           /\ ret' = Ret("push", FALSE, id[t], "waited")
           /\ messages' = messages
           /\ Len(messages') = sent' - received'
           /\ messages'[Len(messages') - (id[t] - received') + 1] = id[t]
      /\ (pc[t] = "pop_loop" /\ pc'[t] = "pop_taken") => id'[t] = received + 1
      /\ (pc[t] = "pop_taken" /\ pc'[t] = "idle") =>
           (ret' = Ret("pop", TRUE, id[t], "took") /\ received' >= id[t])]_vars

\* C10 witness: the push of message 1 has timed out and message 1 is still the
\* oldest of the queue, with a younger message behind it.
TimedOutWitness == ret = Ret("push", FALSE, 1, "waited") /\ messages = <<2, 1>>

\* the oldest queued message
Oldest(msgs) == CHOOSE m \in Range(msgs) : \A n \in Range(msgs) : m <= n

\* C11: peek holds the lock and is never suspended; it returns ok = true with
\* the oldest queued value, the one a pop of the same queue takes, or
\* ok = false on an empty queue, and leaves queue, sent, received and the
\* reference count as they were.
PeekPure ==
  [][\A t \in Threads :
      /\ pc[t] = "peek_locked" => lock = t
      /\ (pc[t] = "peek_locked" /\ pc'[t] # pc[t]) =>
           /\ pc'[t] = "idle" /\ lock' = NoThread
           /\ UNCHANGED <<messages, sent, received, ref>>
           /\ ret' = (IF messages = <<>> THEN Ret("peek", FALSE, 0, "empty")
                      ELSE Ret("peek", TRUE, Oldest(messages), "took"))
      /\ (pc[t] = "pop_loop" /\ pc'[t] \in {"pop_taken", "pop_selflock"}) =>
           id'[t] = Oldest(messages)]_vars

\* C11 witness: peek has returned the older of two queued messages.
PeekWitness == ret = Ret("peek", TRUE, 2, "took") /\ messages = <<3, 2>>

PushPcs == {"push_loop", "push_wait", "push_woken"}

\* C12: a push that is accepted increments sent and gets the new value as its
\* id, which it still returns after waiting; sent never decreases and clear
\* leaves it alone while setting received to it, so no id is handed out twice
\* and the ids of pushes in progress are pairwise distinct.
MessageIds ==
  [][/\ sent' >= sent
     /\ \A t \in Threads :
          /\ (pc[t] = "push_locked" /\ pc'[t] # pc[t] /\ ret'.how # "throw") =>
               /\ sent' = sent + 1
               /\ (IF pc'[t] = "idle" THEN ret'.val ELSE id'[t]) = sent + 1
               /\ sent = 0 => (IF pc'[t] = "idle" THEN ret'.val ELSE id'[t]) = 1
          /\ (pc[t] = "push_loop" /\ pc'[t] = "idle") => ret'.val = id[t]
          /\ (pc[t] \in PushPcs /\ pc'[t] \in PushPcs) => id'[t] = id[t]
          /\ (pc[t] = "clear_locked" /\ pc'[t] # pc[t]) => (sent' = sent /\ received' = sent)
          /\ pc'[t] \in PushPcs =>
               /\ id'[t] \in 1..sent'
               /\ \A u \in Threads \ {t} : pc'[u] \in PushPcs => id'[u] # id'[t]]_vars

\* C12 witness: after a clear destroyed messages 1 and 2 the next push got id 3.
MessageIdsWitness == ret = Ret("push", FALSE, 3, "nowait") /\ cleared = {1, 2}

\* C13: while pop is between taking the last message and returning, the
\* channel is alive: its reference count is positive and it is not destroyed.
PopKeepsChannelAlive ==
  \A t \in Threads : pc[t] \in {"pop_taken", "pop_selflock"} => (ref > 0 /\ ~destroyed)

\* C14: with no call in progress, an empty queue and no external holder, the
\* reference count is zero and the channel is destroyed.
NoLeak ==
  (lock = NoThread /\ (\A t \in Threads : pc[t] = "idle") /\ messages = <<>> /\ ext = 0)
    => (ref = 0 /\ destroyed)

Holding == {"push_locked", "push_loop", "pop_loop", "pop_taken", "pop_selflock",
            "peek_locked", "clear_locked", "count_locked", "hasread_locked"}

\* C15: a thread inside a section that reads or writes the queue or the
\* counters holds the lock, so at most one thread is inside; a suspended thread
\* and a thread between calls do not hold it.
LockDiscipline ==
  \A t \in Threads :
    /\ pc[t] \in Holding => lock = t
    /\ pc[t] \notin Holding => lock # t

\* C17: a pop returns ok = true only with the one message it removed itself; a
\* pop that finds the queue empty with time left waits (again), so a pop with
\* an infinite timeout never returns ok = false; a pop returns ok = false only
\* on an empty queue with a NaN or negative (or used up) timeout.
PopNeverFalselyReturns ==
  [][\A t \in Threads :
      /\ (pc[t] = "pop_loop" /\ pc'[t] \in {"pop_taken", "pop_selflock"}) =>
           /\ Len(messages') = Len(messages) - 1
           /\ id'[t] \in Range(messages) /\ id'[t] \notin Range(messages')
      /\ (pc[t] = "pop_taken" /\ pc'[t] # pc[t]) =>
           /\ ret' = Ret("pop", TRUE, id[t], "took")
           /\ messages' = messages
      /\ (pc[t] \in {"pop_loop", "pop_wait", "pop_woken"} /\ pc'[t] = "idle") =>
           /\ pc[t] = "pop_loop"
           /\ ret' = Ret("pop", FALSE, 0, "empty")
           /\ messages = <<>> /\ messages' = <<>>
           /\ NaNOrNegative(timeout[t])
      /\ (pc[t] = "pop_loop" /\ messages = <<>> /\ ~NaNOrNegative(timeout[t])
              /\ pc'[t] # pc[t]) => pc'[t] = "pop_wait"]_vars

\* C17 witness: a suspended pop was woken and the queue is empty, the message
\* having gone to another pop that has just returned.
PopWokenWitness ==
  /\ ret = Ret("pop", TRUE, 1, "took")
  /\ messages = <<>>
  /\ \E t \in Threads : pc[t] = "pop_woken" /\ isinf(timeout[t])

Occurrences(v, k) == Cardinality({i \in 1..Len(v) : v[i] = k})

\* C18: every value a push was given is in exactly one place: once in the
\* queue, or with the one pop that took it (in progress or returned), or
\* destroyed by a clear; and peek returns queued values only.
ValueConservation ==
  /\ \A k \in 1..sent :
       Occurrences(messages, k) + Occurrences(popped, k)
         + Cardinality({t \in Threads : pc[t] \in {"pop_taken", "pop_selflock"} /\ id[t] = k})
         + (IF k \in cleared THEN 1 ELSE 0) = 1
  /\ (ret.op = "peek" /\ ret.ok) => (ret.val \in Range(messages) /\ ret.val \notin cleared)

\* C18 witness: of three values one is queued, one was popped and one cleared.
ConservationWitness == messages = <<3>> /\ popped = <<1>> /\ cleared = {2}

\* C16: under fair scheduling a pop suspended with an infinite timeout while
\* the queue holds a message eventually returns ok = true, unless the queue
\* was emptied by others first: no pop stays suspended for ever while the
\* queue stays non-empty.
NoLostWakeup ==
  \A t \in Threads :
    (pc[t] \in {"pop_wait", "pop_woken"} /\ isinf(timeout[t]) /\ messages # <<>>)
      ~> (messages = <<>> \/ (pc[t] = "idle" /\ ret.op = "pop" /\ ret.ok))

\* C16 witness: a pop suspended with an infinite timeout has been woken by a
\* push and the pushed message is in the queue.
NoLostWakeupWitness ==
  \E t \in Threads : pc[t] = "pop_woken" /\ isinf(timeout[t]) /\ messages # <<>>

InCall == {"push_loop", "push_wait", "push_woken", "pop_loop", "pop_wait", "pop_woken"}

\* C19: a push or pop with a finite timeout eventually returns, whatever the
\* other threads do and however often it is woken; within a call the
\* remaining timeout never grows, each wait takes the elapsed time off it, and
\* it never falls below minus one wait, so the time spent waiting is at most
\* the timeout plus one wake-up.
FiniteTimeoutTerminates ==
  /\ [][\A t \in Threads :
         (pc[t] \in InCall /\ pc'[t] \in InCall /\ timeout[t].k = "num") =>
           /\ timeout'[t].k = "num"
           /\ timeout'[t].v <= timeout[t].v
           /\ timeout'[t].v >= 0 - MaxElapsed
           /\ (pc'[t] \in {"push_wait", "pop_wait"} /\ pc[t] # pc'[t]) => timeout[t].v >= 0
           /\ (timeout'[t].v < timeout[t].v) => pc[t] \in {"push_woken", "pop_woken"}]_vars
  /\ \A t \in Threads :
       (pc[t] \in InCall /\ timeout[t].k = "num") ~> (pc[t] = "idle")

\* C19 witness: a pop's finite timeout is used up after waiting on an empty
\* queue; the call is at the loop head and about to return ok = false.
TimeoutUsedUpWitness ==
  \E t \in Threads :
    pc[t] = "pop_loop" /\ timeout[t].k = "num" /\ timeout[t].v < 0 /\ messages = <<>>

Next ==
  \/ \E t \in Threads, to \in Timeouts : PushLock(t, to)
  \/ \E t \in Threads : PushInsert(t)
  \/ \E t \in Threads : PushLoop(t)
  \/ \E t \in Threads : Wake(t)
  \/ \E t \in Threads : PushWakeup(t)
  \/ \E t \in Threads, to \in Timeouts : PopLock(t, to)
  \/ \E t \in Threads : PopLoop(t)
  \/ \E t \in Threads : PopFinish(t)
  \/ \E t \in Threads : PopWakeup(t)
  \/ \E t \in Threads : PeekLock(t)
  \/ \E t \in Threads : Peek(t)
  \/ \E t \in Threads : ClearLock(t)
  \/ \E t \in Threads : Clear(t)
  \/ \E t \in Threads : CountLock(t)
  \/ \E t \in Threads : GetCount(t)
  \/ \E t \in Threads, k \in 1..MaxSent : HasReadLock(t, k)
  \/ \E t \in Threads : HasRead(t)
  \/ ExtRetain
  \/ ExtRelease

Spec == Init /\ [][Next]_vars

\* The mutating calls alone on a channel its creator holds, with pushes and pops that do not wait or wait for
\* ever, under a fair scheduler: a pusher that a wake made runnable gets the
\* lock at some point (SF: other threads may take it in between), and the
\* thread that holds the lock goes on (WF).
NextFair ==
  \/ \E t \in Threads, to \in {NaN, Inf} : PushLock(t, to)
  \/ \E t \in Threads : PushInsert(t)
  \/ \E t \in Threads : PushLoop(t)
  \/ \E t \in Threads : Wake(t)
  \/ \E t \in Threads : PushWakeup(t)
  \/ \E t \in Threads, to \in {NaN, Inf} : PopLock(t, to)
  \/ \E t \in Threads : PopLoop(t)
  \/ \E t \in Threads : PopFinish(t)
  \/ \E t \in Threads : PopWakeup(t)
  \/ \E t \in Threads : ClearLock(t)
  \/ \E t \in Threads : Clear(t)

\* a step of the thread that holds the lock
HolderStep ==
  \E t \in Threads : PushInsert(t) \/ PushLoop(t) \/ PopLoop(t) \/ PopFinish(t) \/ Clear(t)

Fairness == WF_vars(HolderStep) /\ \A t \in Threads : SF_vars(PushWakeup(t))

FairSpec == Init /\ [][NextFair]_vars /\ Fairness

\* a woken popper, too, eventually gets the lock when it is free again and again
ConsumerFairness == Fairness /\ \A t \in Threads : SF_vars(PopWakeup(t))

ConsumerFairSpec == Init /\ [][NextFair]_vars /\ ConsumerFairness
\* ================================================================ curve.c
Coords == 1..MaxCoord
\* a control point: three floats
Point3 == {<<x, y, z>> : x \in Coords, y \in Coords, z \in Coords}

\* lines 102-104: the number of control points
lovrCurveGetPointCount(pts) == Len(pts) \div 3
\* lines 106-108: the point at a (0-based) index
lovrCurveGetPoint(pts, index) == <<pts[3 * index + 1], pts[3 * index + 2], pts[3 * index + 3]>>

\* lines 114-128: room for three more floats; the floats from index * 3 on move
\* up by three (memmove), the point is copied into the gap (memcpy)
lovrCurveAddPoint(pts, point, index) ==
  [j \in 1..(Len(pts) + 3) |->
     IF j <= index * 3 THEN pts[j]
     ELSE IF j <= index * 3 + 3 THEN point[j - index * 3]
     ELSE pts[j - 3]]

\* vec_swapsplice(v, start, count): the last count elements are copied over the
\* count elements from start on, and the length shrinks by count
vec_swapsplice(v, start, count) ==
  [j \in 1..(Len(v) - count) |->
     IF j > start /\ j <= start + count THEN v[Len(v) - count + (j - start)]
     ELSE v[j]]

\* lines 130-132
lovrCurveRemovePoint(pts, index) == vec_swapsplice(pts, index * 3, 3)

AddPoint(point, index) ==
  /\ lovrCurveGetPointCount(points) < MaxPoints
  /\ index \in 0..lovrCurveGetPointCount(points)
  /\ points' = lovrCurveAddPoint(points, point, index)
  /\ before' = points
  /\ call' = [op |-> "add", index |-> index]
  /\ UNCHANGED <<messages, sent, received, ref, lock, destroyed, ext, pc, timeout, id, ret,
                 popped, cleared>>

RemovePoint(index) ==
  /\ index \in 0..(lovrCurveGetPointCount(points) - 1)
  /\ points' = lovrCurveRemovePoint(points, index)
  /\ before' = IF call.op = "add" /\ call.index = index THEN before ELSE points
  /\ call' = [op |-> IF call.op = "add" /\ call.index = index THEN "undo" ELSE "remove",
              index |-> index]
  /\ UNCHANGED <<messages, sent, received, ref, lock, destroyed, ext, pc, timeout, id, ret,
                 popped, cleared>>

NextCurve ==
  \/ \E point \in Point3, index \in 0..MaxPoints : AddPoint(point, index)
  \/ \E index \in 0..(MaxPoints - 1) : RemovePoint(index)

CurveSpec == Init /\ [][NextCurve]_vars

\* the control points as a sequence, in index order
PointSeq(pts) == [i \in 1..lovrCurveGetPointCount(pts) |-> lovrCurveGetPoint(pts, i - 1)]
\* a sequence with p put in at (0-based) index i, and with the element at i taken out
InsertAt(q, i, p) == SubSeq(q, 1, i) \o <<p>> \o SubSeq(q, i + 1, Len(q))
RemoveAt(q, i) == SubSeq(q, 1, i) \o SubSeq(q, i + 2, Len(q))

\* C20: the control points are an ordered sequence: adding p at index i gives
\* one point more with p at i and the others in their order, removing index i
\* gives one point less with the others in their order, and adding at i then
\* removing i gives back the curve as it was.
CurveIsOrderedSequence ==
  [][/\ call'.op = "add" =>
          \E p \in Point3 : PointSeq(points') = InsertAt(PointSeq(points), call'.index, p)
                            /\ lovrCurveGetPoint(points', call'.index) = p
     /\ call'.op \in {"remove", "undo"} =>
          PointSeq(points') = RemoveAt(PointSeq(points), call'.index)
     /\ (call.op = "add" /\ call'.op = "undo") => points' = before]_vars

\* ------------------------------------------------ calls with finite timeouts
\* push called with NaN or a finite non-negative timeout, pop with a finite one
NextTimed ==
  \/ \E t \in Threads, to \in {NaN} \cup {Num(n) : n \in 0..MaxTimeout} : PushLock(t, to)
  \/ \E t \in Threads : PushInsert(t)
  \/ \E t \in Threads : PushLoop(t)
  \/ \E t \in Threads : Wake(t)
  \/ \E t \in Threads : PushWakeup(t)
  \/ \E t \in Threads, n \in 0..MaxTimeout : PopLock(t, Num(n))
  \/ \E t \in Threads : PopLoop(t)
  \/ \E t \in Threads : PopFinish(t)
  \/ \E t \in Threads : PopWakeup(t)

\* a wait during which the clock advanced
ClockTick(t) == (PushWakeup(t) \/ PopWakeup(t)) /\ timeout'[t] # timeout[t]

\* the lock holder runs; cnd_timedwait returns at its deadline at the latest;
\* the clock advances: of the waits of a thread, some take time
TimedFairness ==
  /\ WF_vars(HolderStep)
  /\ \A t \in Threads : WF_vars(Wake(t)) /\ SF_vars(ClockTick(t))

TimedSpec == Init /\ [][NextTimed]_vars /\ TimedFairness
====
